---- MODULE Spec2Model ----
(***************************************************************************)
(* Model of data/engine/sql/repository.go: the generic Repository that     *)
(* assembles parameterized SQL text and hands it to a database handle.     *)
(*                                                                         *)
(* A query string is modelled as the sequence of the fragments that        *)
(* fmt.Sprintf and += concatenate (the literal pieces of the format        *)
(* string and the substituted values); Render is their concatenation.      *)
(* An interface{} value is a record [kind, v]: its dynamic type and its    *)
(* printed form.  An order string is a sequence of one-character strings,  *)
(* because ParseOrder inspects it character by character.                  *)
(***************************************************************************)
EXTENDS Integers, Sequences, FiniteSets, TLC

VARIABLES rec, op, input, reply, calls, ret, dest

vars == <<rec, op, input, reply, calls, ret, dest>>

(***************************************************************************)
(* Bounds of the model.                                                    *)
(***************************************************************************)
MaxLen == 5       \* longest order string given to ParseOrder alone
MaxId == 1        \* ids are 1..MaxId
MaxRows == 2      \* the handle reports 0..MaxRows affected rows
MaxLimit == 1     \* limits 0..MaxLimit (and 10)
MaxOffset == 1    \* offsets 0..MaxOffset (and 20)

(***************************************************************************)
(* Errors.                                                                 *)
(***************************************************************************)
nil == "nil"
ErrNoRows == "sql: no rows in result set"
ErrUnprocessable == "invalid entity"
ErrConn == "driver: bad connection"

\* the errors a handle call can return
HandleErrors == {nil, ErrNoRows, ErrConn}

(***************************************************************************)
(* Values (interface{}), kinds (reflect.Kind), records.                    *)
(***************************************************************************)
Val(k, v) == [kind |-> k, v |-> v]
NilValue == Val("nil", "nil")
Int5 == Val("int", "5")
StrBob == Val("string", "bob")
BoolTrue == Val("bool", "true")
Float15 == Val("float64", "1.5")

AttrValues == {StrBob, Int5, BoolTrue, Float15}
Kinds == {"string", "int", "bool", "float64"}
Columns == {"name", "age"}
Ids == 1..MaxId
IdVal(id) == Val("int64", ToString(id))

\* a map[string]T with keys among Columns
Maps(T) == UNION {[D -> T] : D \in SUBSET Columns}

\* every order in which `range m` can visit the keys of a map with key set D
Orders(D) == {o \in [1..Cardinality(D) -> D] : \A i, j \in 1..Cardinality(D) : o[i] = o[j] => i = j}

\* Record descriptors: table, primary key, and whether it implements Sorted
Records == {[table |-> "users", pk |-> "id", sorted |-> FALSE, sortBy |-> ""],
            [table |-> "users", pk |-> "id", sorted |-> TRUE, sortBy |-> "created_at"]}

\* what the caller's destination can hold
Unset == "unset"
Rows == {"row1"}

(***************************************************************************)
(* Strings.                                                                *)
(***************************************************************************)
RECURSIVE Render(_)
Render(q) == IF q = <<>> THEN "" ELSE Head(q) \o Render(Tail(q))

\* strings.Join over fragment sequences
RECURSIVE Join(_, _)
Join(lines, sep) ==
    IF lines = <<>> THEN <<>>
    ELSE IF Len(lines) = 1 THEN lines[1]
    ELSE lines[1] \o <<sep>> \o Join(Tail(lines), sep)

\* unicode.IsSpace for the characters of the model
IsSpace(c) == c \in {" ", "\t", "\n", "\r"}

RECURSIVE TrimLeft(_)
TrimLeft(s) == IF s # <<>> /\ IsSpace(Head(s)) THEN TrimLeft(Tail(s)) ELSE s

RECURSIVE TrimRight(_)
TrimRight(s) ==
    IF s # <<>> /\ IsSpace(s[Len(s)]) THEN TrimRight(SubSeq(s, 1, Len(s) - 1)) ELSE s

TrimSpace(s) == TrimRight(TrimLeft(s))

UpperChar(c) ==
    CASE c = "d" -> "D"
      [] c = "e" -> "E"
      [] c = "s" -> "S"
      [] c = "c" -> "C"
      [] c = "a" -> "A"
      [] OTHER -> c

ToUpper(s) == [i \in 1..Len(s) |-> UpperChar(s[i])]

HasPrefix(s, p) == Len(s) >= Len(p) /\ SubSeq(s, 1, Len(p)) = p

Idle == "idle"

ascending == "ASC"
descending == "DESC"
descendingChars == <<"D", "E", "S", "C">>

ParseOrderNoTrim(order) ==
    IF Len(order) >= 4 /\ HasPrefix(ToUpper(order), descendingChars)
    THEN descending
    ELSE ascending

ParseOrder(order) ==
    LET o == TrimSpace(order)
    IN  IF Len(o) >= 4
        THEN IF HasPrefix(ToUpper(o), descendingChars) THEN descending ELSE ascending
        ELSE ascending

(***************************************************************************)
(* The database handle.  A call on the handle is recorded in calls; what   *)
(* the handle answers is an input of the operation, kept in reply.         *)
(***************************************************************************)
Call(m, q, args) == [method |-> m, q |-> q, args |-> args]

\* sql.Result: nil, or a result whose RowsAffected() gives (n, rerr)
NilResult == [isNil |-> TRUE, n |-> 0, rerr |-> nil]
Results == {NilResult} \cup [isNil : {FALSE}, n : 0..MaxRows, rerr : {nil, ErrConn}]

NoReply == [err |-> nil]
\* answers of Select and Get: an error, or the row bound to the destination
ReadReplies == [err : HandleErrors \ {nil}] \cup [err : {nil}, row : Rows]
\* answers of Select into &total
CountReplies == [err : HandleErrors \ {nil}] \cup [err : {nil}, total : 0..MaxRows]
\* answers of Exec
ExecReplies == [err : HandleErrors \ {nil}, res : {NilResult}] \cup [err : {nil}, res : Results]

\* the destination after a Select or Get that answered r
Bind(r, d) == IF r.err = nil THEN r.row ELSE d

(***************************************************************************)
(* Count                                                                   *)
(***************************************************************************)
CountQuery == <<"SELECT COUNT(DISTINCT ", rec.pk, ") FROM ", rec.table>>

CountErrKeep(err) == err

CountErr(err) == IF err = ErrNoRows THEN nil ELSE err

Count ==
    /\ op = Idle
    /\ \E r \in CountReplies :
        /\ op' = "Count"
        /\ input' = <<>>
        /\ reply' = r
        /\ calls' = <<Call("Select", CountQuery, <<>>)>>
        /\ ret' = [total |-> IF r.err = nil THEN r.total ELSE 0, err |-> CountErr(r.err)]
        /\ UNCHANGED <<rec, dest>>

(***************************************************************************)
(* GetByID, GetAll                                                         *)
(***************************************************************************)
GetByIDQuery == <<"SELECT * FROM ", rec.table, " WHERE ", rec.pk, " = ? LIMIT 1">>

GetByID ==
    /\ op = Idle
    /\ \E id \in Ids, r \in ReadReplies :
        /\ op' = "GetByID"
        /\ input' = [id |-> id, dest |-> dest]
        /\ reply' = r
        /\ calls' = <<Call("Get", GetByIDQuery, <<IdVal(id)>>)>>
        /\ ret' = [err |-> r.err]
        /\ dest' = Bind(r, dest)
        /\ UNCHANGED rec

GetAllQuery == <<"SELECT * FROM ", rec.table>>

GetAll ==
    /\ op = Idle
    /\ \E r \in ReadReplies :
        /\ op' = "GetAll"
        /\ input' = [dest |-> dest]
        /\ reply' = r
        /\ calls' = <<Call("Get", GetAllQuery, <<>>)>>
        /\ ret' = [err |-> r.err]
        /\ dest' = Bind(r, dest)
        /\ UNCHANGED rec

(***************************************************************************)
(* GetByAttrs.  ord is the order in which range visits the map.            *)
(***************************************************************************)
KeyLine(k) == <<k, " = ?">>

GetByAttrsPlanNoGuard(attrs, ord) ==
    LET keyLines == [i \in 1..Len(ord) |-> KeyLine(ord[i])]
        values == [i \in 1..Len(ord) |-> attrs[ord[i]]]
    IN  [call |-> TRUE,
         q |-> <<"SELECT * FROM ", rec.table, " WHERE ">> \o Join(keyLines, ", ") \o <<";">>,
         args |-> values]

GetByAttrsPlan(attrs, ord) ==
    LET keyLines == [i \in 1..Len(ord) |-> KeyLine(ord[i])]
        values == [i \in 1..Len(ord) |-> attrs[ord[i]]]
    IN  IF Cardinality(DOMAIN attrs) = 0 \/ Len(values) = 0
        THEN [call |-> FALSE, q |-> <<>>, args |-> <<>>]
        ELSE [call |-> TRUE,
              q |-> <<"SELECT * FROM ", rec.table, " WHERE ">> \o Join(keyLines, ", ") \o <<";">>,
              args |-> values]

GetByAttrs ==
    /\ op = Idle
    /\ \E attrs \in Maps(AttrValues) :
      \E ord \in Orders(DOMAIN attrs), r \in ReadReplies :
        LET plan == GetByAttrsPlan(attrs, ord)
        IN  /\ op' = "GetByAttrs"
            /\ input' = [attrs |-> attrs, dest |-> dest]
            /\ IF plan.call
               THEN /\ reply' = r
                    /\ calls' = <<Call("Get", plan.q, plan.args)>>
                    /\ ret' = [err |-> r.err]
                    /\ dest' = Bind(r, dest)
               ELSE /\ reply' = NoReply
                    /\ calls' = <<>>
                    /\ ret' = [err |-> nil]
                    /\ dest' = dest
            /\ UNCHANGED rec

(***************************************************************************)
(* DeleteByID, GetAffectedRows                                             *)
(***************************************************************************)
GetAffectedRowsZero(result) == 0

GetAffectedRows(result) == IF result.isNil THEN 0 ELSE result.n

DeleteByIDQuery == <<"DELETE FROM ", rec.table, " WHERE ", rec.pk, " = ? LIMIT 1">>

DeleteByID ==
    /\ op = Idle
    /\ \E id \in Ids, r \in ExecReplies :
        /\ op' = "DeleteByID"
        /\ input' = [id |-> id]
        /\ reply' = r
        /\ calls' = <<Call("Exec", DeleteByIDQuery, <<IdVal(id)>>)>>
        /\ ret' = IF r.err # nil
                  THEN [n |-> 0, err |-> r.err]
                  ELSE [n |-> GetAffectedRows(r.res), err |-> nil]
        /\ UNCHANGED <<rec, dest>>

(***************************************************************************)
(* ListOptions, BuildQuery, List                                           *)
(***************************************************************************)
OptOrders == {<<>>, <<"a", "s", "c">>, <<"d", "e", "s", "c">>, <<" ", "D", "E", "S", "C", " ">>,
              <<"D", "e", "s", "c", "e", "n", "d", "i", "n", "g">>, <<"d">>}

ListOptions ==
    [Table : {"", "users", "orders"},
     Offset : (0..MaxOffset) \cup {20},
     Limit : (0..MaxLimit) \cup {10},
     OrderByColumn : {"", "name"},
     Order : OptOrders,
     WhereColumn : {"", "id"},
     WhereValue : {NilValue, Int5}]

BuildQueryOffsetFirst(opt) ==
    LET q0 == <<"SELECT * FROM ", opt.Table>>
        where == opt.WhereColumn # "" /\ opt.WhereValue # NilValue
        q1 == IF where THEN q0 \o <<" WHERE ", opt.WhereColumn, " = ?">> ELSE q0
        q2 == IF opt.OrderByColumn # ""
              THEN q1 \o <<" ORDER BY ", opt.OrderByColumn, " ", ParseOrder(opt.Order)>>
              ELSE q1
        q3 == IF opt.Offset > 0 THEN q2 \o <<" OFFSET ", ToString(opt.Offset)>> ELSE q2
        q4 == IF opt.Limit > 0 THEN q3 \o <<" LIMIT ", ToString(opt.Limit)>> ELSE q3
    IN  [q |-> q4, args |-> IF where THEN <<opt.WhereValue>> ELSE <<>>]

BuildQuery(opt) ==
    LET q0 == <<"SELECT * FROM ", opt.Table>>
        where == opt.WhereColumn # "" /\ opt.WhereValue # NilValue
        q1 == IF where THEN q0 \o <<" WHERE ", opt.WhereColumn, " = ?">> ELSE q0
        a1 == IF where THEN <<opt.WhereValue>> ELSE <<>>
        q2 == IF opt.OrderByColumn # ""
              THEN q1 \o <<" ORDER BY ", opt.OrderByColumn, " ", ParseOrder(opt.Order)>>
              ELSE q1
        q3 == IF opt.Limit > 0 THEN q2 \o <<" LIMIT ", ToString(opt.Limit)>> ELSE q2
        q4 == IF opt.Offset > 0 THEN q3 \o <<" OFFSET ", ToString(opt.Offset)>> ELSE q3
    IN  [q |-> q4, args |-> a1]

BuildQueryCall ==
    /\ op = Idle
    /\ \E opt \in ListOptions :
        /\ op' = "BuildQuery"
        /\ input' = [opts |-> opt]
        /\ reply' = NoReply
        /\ calls' = <<>>
        /\ ret' = BuildQuery(opt)
        /\ UNCHANGED <<rec, dest>>

ResolveOptionsRecordFirst(opts) ==
    LET o1 == [opts EXCEPT !.Table = rec.table]
    IN  IF rec.sorted THEN [o1 EXCEPT !.OrderByColumn = rec.sortBy] ELSE o1

\* List, up to BuildQuery: the options with table and order column resolved
ResolveOptions(opts) ==
    LET o1 == IF opts.Table = "" THEN [opts EXCEPT !.Table = rec.table] ELSE opts
    IN  IF o1.OrderByColumn = "" /\ rec.sorted
        THEN [o1 EXCEPT !.OrderByColumn = rec.sortBy]
        ELSE o1

List ==
    /\ op = Idle
    /\ \E opts \in ListOptions, r \in ReadReplies :
        LET b == BuildQuery(ResolveOptions(opts))
        IN  /\ op' = "List"
            /\ input' = [opts |-> opts, dest |-> dest]
            /\ reply' = r
            /\ calls' = <<Call("Select", b.q, b.args)>>
            /\ ret' = [err |-> r.err]
            /\ dest' = Bind(r, dest)
            /\ UNCHANGED rec

(***************************************************************************)
(* PartialUpdate.  ord is the order in which range visits schema.          *)
(***************************************************************************)
KindMismatchNoBool(v, kind) ==
    \/ v.kind = "string" /\ kind # "string"
    \/ v.kind = "int" /\ kind # "int"

\* the type switch: does the value fail the "trivial" validation
KindMismatch(v, kind) ==
    \/ v.kind = "string" /\ kind # "string"
    \/ v.kind = "int" /\ kind # "int"
    \/ v.kind = "bool" /\ kind # "bool"

\* the loop over schema, from the keys still to visit and the slices so far
RECURSIVE UpdateLoop(_, _, _, _, _)
UpdateLoop(schema, attrs, ord, keyLines, values) ==
    IF ord = <<>>
    THEN [err |-> nil, keyLines |-> keyLines, values |-> values]
    ELSE LET key == Head(ord)
         IN  IF key \notin DOMAIN attrs
             THEN UpdateLoop(schema, attrs, Tail(ord), keyLines, values)
             ELSE IF KindMismatch(attrs[key], schema[key])
                  THEN [err |-> ErrUnprocessable, keyLines |-> <<>>, values |-> <<>>]
                  ELSE UpdateLoop(schema, attrs, Tail(ord),
                                  Append(keyLines, KeyLine(key)), Append(values, attrs[key]))

NoExec == [err |-> nil, exec |-> FALSE, q |-> <<>>, args |-> <<>>]

UpdateStatement(id, l) ==
    [err |-> nil, exec |-> TRUE,
     q |-> <<"UPDATE ", rec.table, " SET ">> \o Join(l.keyLines, ", ")
             \o <<" WHERE ", rec.pk, " = ?;">>,
     args |-> Append(l.values, IdVal(id))]

PartialUpdatePlanNoEmptyCheck(id, schema, attrs, ord) ==
    LET l == UpdateLoop(schema, attrs, ord, <<>>, <<>>)
    IN  IF l.err # nil THEN [NoExec EXCEPT !.err = l.err] ELSE UpdateStatement(id, l)

PartialUpdatePlanAllAttrs(id, schema, attrs, ord) ==
    LET l == UpdateLoop(schema, attrs, ord, <<>>, <<>>)
        D == DOMAIN attrs
        o == CHOOSE f \in Orders(D) : TRUE
        all == [err |-> nil, keyLines |-> [i \in 1..Cardinality(D) |-> KeyLine(o[i])],
                values |-> [i \in 1..Cardinality(D) |-> attrs[o[i]]]]
    IN  IF Cardinality(DOMAIN schema) = 0 \/ Cardinality(D) = 0 THEN NoExec
        ELSE IF l.err # nil THEN [NoExec EXCEPT !.err = l.err]
        ELSE IF Len(l.values) = 0 THEN NoExec
        ELSE UpdateStatement(id, all)

\* PartialUpdate, up to Exec: the error to return, or the statement to execute
PartialUpdatePlan(id, schema, attrs, ord) ==
    IF Cardinality(DOMAIN schema) = 0 \/ Cardinality(DOMAIN attrs) = 0
    THEN NoExec
    ELSE LET l == UpdateLoop(schema, attrs, ord, <<>>, <<>>)
         IN  IF l.err # nil THEN [NoExec EXCEPT !.err = l.err]
             ELSE IF Len(l.values) = 0 THEN NoExec
             ELSE UpdateStatement(id, l)

PartialUpdate ==
    /\ op = Idle
    /\ \E id \in Ids, schema \in Maps(Kinds), attrs \in Maps(AttrValues) :
      \E ord \in Orders(DOMAIN schema), r \in ExecReplies :
        LET plan == PartialUpdatePlan(id, schema, attrs, ord)
        IN  /\ op' = "PartialUpdate"
            /\ input' = [id |-> id, schema |-> schema, attrs |-> attrs]
            /\ IF plan.exec
               THEN /\ reply' = r
                    /\ calls' = <<Call("Exec", plan.q, plan.args)>>
                    /\ ret' = IF r.err # nil
                              THEN [n |-> 0, err |-> r.err]
                              ELSE [n |-> GetAffectedRows(r.res), err |-> nil]
               ELSE /\ reply' = NoReply
                    /\ calls' = <<>>
                    /\ ret' = [n |-> 0, err |-> plan.err]
            /\ UNCHANGED <<rec, dest>>

(***************************************************************************)
(* ParseOrder, called on its own                                           *)
(***************************************************************************)
OrderChars == {" ", "d", "D", "e", "s", "c"}
OrderStrings == UNION {[1..n -> OrderChars] : n \in 0..MaxLen}

ParseOrderCall ==
    /\ op = Idle
    /\ \E s \in OrderStrings :
        /\ op' = "ParseOrder"
        /\ input' = [order |-> s]
        /\ reply' = NoReply
        /\ calls' = <<>>
        /\ ret' = [order |-> ParseOrder(s)]
        /\ UNCHANGED <<rec, dest>>

Return ==
    /\ op # Idle
    /\ op' = Idle
    /\ input' = <<>>
    /\ reply' = NoReply
    /\ calls' = <<>>
    /\ ret' = <<>>
    /\ UNCHANGED <<rec, dest>>

(***************************************************************************)
(* Init: NewRepository(db, of); no call is in progress.  Every operation   *)
(* is one synchronous call: it runs from the idle state, leaves its        *)
(* arguments, the handle's answer, its handle calls and its results in the *)
(* state, and Return hands control back to the caller.                     *)
(***************************************************************************)
Init ==
    /\ rec \in Records
    /\ op = Idle
    /\ input = <<>>
    /\ reply = NoReply
    /\ calls = <<>>
    /\ ret = <<>>
    /\ dest = Unset

Next ==
    \/ Count
    \/ GetByID
    \/ GetByAttrs
    \/ GetAll
    \/ DeleteByID
    \/ BuildQueryCall
    \/ List
    \/ PartialUpdate
    \/ ParseOrderCall
    \/ Return

Spec == Init /\ [][Next]_vars

(***************************************************************************)
(* Properties.                                                             *)
(***************************************************************************)
\* the number of `?` placeholders of a query
Placeholders(q) == Cardinality({i \in DOMAIN q : q[i] \in {" = ?", " = ?;", " = ? LIMIT 1"}})

\* a query without its statement terminator
Unterminated(q) == IF q # <<>> /\ q[Len(q)] = ";" THEN SubSeq(q, 1, Len(q) - 1) ELSE q

\* w is n terms `col = ?` separated by sep, over the columns of D, each once,
\* and a[i] is the value m gives to the i-th column
TermList(w, sep, n, D, m, a) ==
    /\ Len(w) = 3 * n - 1
    /\ {w[3 * i - 2] : i \in 1..n} = D
    /\ Cardinality(D) = n
    /\ \A i \in 1..n : w[3 * i - 1] = " = ?" /\ a[i] = m[w[3 * i - 2]]
    /\ \A i \in 1..(n - 1) : w[3 * i] = sep

\* C1: for a non-empty attribute map GetByAttrs issues exactly one Get of
\* SELECT * FROM {table} WHERE ..., with one `{col} = ?` term per key, the
\* terms joined by " AND ", and the i-th argument the value of the i-th column.
C1_GetByAttrsConjunctive ==
    (op = "GetByAttrs" /\ DOMAIN input.attrs # {}) =>
        /\ Len(calls) = 1
        /\ calls[1].method = "Get"
        /\ LET q == Unterminated(calls[1].q)
               n == Cardinality(DOMAIN input.attrs)
           IN  /\ Len(q) > 3
               /\ SubSeq(q, 1, 3) = <<"SELECT * FROM ", rec.table, " WHERE ">>
               /\ Len(calls[1].args) = n
               /\ TermList(SubSeq(q, 4, Len(q)), " AND ", n, DOMAIN input.attrs,
                           input.attrs, calls[1].args)

\* the kinds the type switch of PartialUpdate validates
CheckedKinds == {"string", "int", "bool"}

Mismatched(schema, attrs) ==
    {k \in DOMAIN schema \cap DOMAIN attrs :
        attrs[k].kind \in CheckedKinds /\ attrs[k].kind # schema[k]}

\* C2: if some key of both schema and attrs has a string, int or bool value
\* whose kind differs from the declared kind, PartialUpdate returns
\* (0, ErrUnprocessable) and Exec is never called, whatever the iteration
\* order and however many other keys are valid.
C2_ValidationAllOrNothing ==
    (op = "PartialUpdate" /\ Mismatched(input.schema, input.attrs) # {}) =>
        /\ ret = [n |-> 0, err |-> ErrUnprocessable]
        /\ calls = <<>>

C2_Witness ==
    /\ op = "PartialUpdate"
    /\ Cardinality(Mismatched(input.schema, input.attrs)) = 1
    /\ Cardinality(DOMAIN input.schema \cap DOMAIN input.attrs) = 2
    /\ ret.err = ErrUnprocessable
    /\ calls = <<>>

\* C3: PartialUpdate returns (0, nil) and never calls Exec when schema is
\* empty, attrs is empty, or schema and attrs have no key in common.
C3_NothingToUpdate ==
    (op = "PartialUpdate" /\ DOMAIN input.schema \cap DOMAIN input.attrs = {}) =>
        /\ ret = [n |-> 0, err |-> nil]
        /\ calls = <<>>

C3_Witness ==
    /\ op = "PartialUpdate"
    /\ DOMAIN input.schema # {}
    /\ DOMAIN input.attrs # {}
    /\ DOMAIN input.schema \cap DOMAIN input.attrs = {}
    /\ ret = [n |-> 0, err |-> nil]
    /\ calls = <<>>

ExampleOptions ==
    [Table |-> "users", WhereColumn |-> "id", WhereValue |-> Int5, OrderByColumn |-> "name",
     Order |-> <<"d", "e", "s", "c">>, Limit |-> 10, Offset |-> 20]

\* C4: BuildQuery returns SELECT * FROM {Table} followed by the optional
\* clauses in the order filter, order, limit, offset; args is [WhereValue]
\* exactly when the WHERE clause is emitted, so the placeholders are as many
\* as the args; the example options give the example query.
C4_BuildQueryClauses ==
    op = "BuildQuery" =>
        LET o == input.opts
            filter == o.WhereColumn # "" /\ o.WhereValue # NilValue
            where == IF filter THEN " WHERE " \o o.WhereColumn \o " = ?" ELSE ""
            limit == IF o.Limit > 0 THEN " LIMIT " \o ToString(o.Limit) ELSE ""
            offset == IF o.Offset > 0 THEN " OFFSET " \o ToString(o.Offset) ELSE ""
        IN  /\ \E dir \in {"ASC", "DESC"} :
                LET order == IF o.OrderByColumn # ""
                             THEN " ORDER BY " \o o.OrderByColumn \o " " \o dir
                             ELSE ""
                IN  Render(ret.q) = "SELECT * FROM " \o o.Table \o where \o order \o limit \o offset
            /\ ret.args = IF filter THEN <<o.WhereValue>> ELSE <<>>
            /\ Placeholders(ret.q) = Len(ret.args)
            /\ o = ExampleOptions =>
                /\ Render(ret.q) = "SELECT * FROM users WHERE id = ? ORDER BY name DESC LIMIT 10 OFFSET 20"
                /\ ret.args = <<Int5>>

C4_Witness ==
    /\ op = "BuildQuery"
    /\ input.opts = ExampleOptions
    /\ Len(ret.q) = 13
    /\ ret.args = <<Int5>>

\* C5: ParseOrder returns only "ASC" or "DESC"; it returns "DESC" exactly
\* when the first four characters after the leading whitespace spell DESC
\* in any case, and "ASC" otherwise.
C5_ParseOrder ==
    op = "ParseOrder" =>
        LET s == input.order
            desc == \E i \in 1..(Len(s) - 3) :
                        /\ \A j \in 1..(i - 1) : s[j] \in {" ", "\t", "\n", "\r"}
                        /\ s[i] \in {"d", "D"}
                        /\ s[i + 1] \in {"e", "E"}
                        /\ s[i + 2] \in {"s", "S"}
                        /\ s[i + 3] \in {"c", "C"}
        IN  /\ ret.order \in {"ASC", "DESC"}
            /\ ret.order = "DESC" <=> desc

C5_Witness ==
    /\ op = "ParseOrder"
    /\ input.order = <<" ", "D", "e", "s", "c">>
    /\ ret.order = "DESC"

\* C6: Count issues one Select of SELECT COUNT(DISTINCT {pk}) FROM {table};
\* on the "no rows" error it returns (0, nil), and every other handle error
\* is returned unmodified.
C6_CountNoRows ==
    op = "Count" =>
        /\ Len(calls) = 1
        /\ calls[1].method = "Select"
        /\ Render(calls[1].q) = "SELECT COUNT(DISTINCT " \o rec.pk \o ") FROM " \o rec.table
        /\ calls[1].args = <<>>
        /\ reply.err = ErrNoRows => ret = [total |-> 0, err |-> nil]
        /\ reply.err # ErrNoRows => ret.err = reply.err

C6_Witness ==
    /\ op = "Count"
    /\ reply.err = ErrNoRows
    /\ ret = [total |-> 0, err |-> nil]

\* the result of an Exec that answered r, as DeleteByID and PartialUpdate
\* are to return it
Reported(r) ==
    IF r.err # nil THEN [n |-> 0, err |-> r.err]
    ELSE [n |-> IF r.res.isNil THEN 0 ELSE r.res.n, err |-> nil]

\* C7: DeleteByID issues exactly one Exec of DELETE FROM {table} WHERE {pk}
\* = ? LIMIT 1 with the id as only argument; on success it returns the
\* affected-row count the handle reported with a nil error, on failure
\* count 0 and the handle's error.
C7_DeleteByID ==
    op = "DeleteByID" =>
        /\ Len(calls) = 1
        /\ calls[1].method = "Exec"
        /\ Render(calls[1].q) = "DELETE FROM " \o rec.table \o " WHERE " \o rec.pk \o " = ? LIMIT 1"
        /\ calls[1].args = <<IdVal(input.id)>>
        /\ ret = Reported(reply)

C7_Witness ==
    /\ op = "DeleteByID"
    /\ reply.err = nil
    /\ ~reply.res.isNil
    /\ reply.res.n = 1
    /\ ret = [n |-> 1, err |-> nil]

\* C8: GetByAttrs with an empty attribute map returns a nil error, makes no
\* call on the handle and leaves the destination unchanged.
C8_GetByAttrsEmpty ==
    (op = "GetByAttrs" /\ DOMAIN input.attrs = {}) =>
        /\ ret.err = nil
        /\ calls = <<>>
        /\ dest = input.dest

C8_Witness ==
    /\ op = "GetByAttrs"
    /\ DOMAIN input.attrs = {}
    /\ input.dest \in Rows
    /\ dest = input.dest
    /\ calls = <<>>

\* C9: List uses the record's table only when opts.Table is empty, and the
\* record's sort column only when opts.OrderByColumn is empty and the record
\* has one; the other fields reach BuildQuery unchanged; List makes exactly
\* one Select call and returns its error unmodified.
C9_ListResolution ==
    op = "List" =>
        LET o == input.opts
            table == IF o.Table # "" THEN o.Table ELSE rec.table
            by == IF o.OrderByColumn # "" THEN o.OrderByColumn
                  ELSE IF rec.sorted THEN rec.sortBy ELSE ""
            b == BuildQuery([Table |-> table, OrderByColumn |-> by, Offset |-> o.Offset,
                             Limit |-> o.Limit, Order |-> o.Order,
                             WhereColumn |-> o.WhereColumn, WhereValue |-> o.WhereValue])
        IN  /\ Len(calls) = 1
            /\ calls[1] = Call("Select", b.q, b.args)
            /\ calls[1].q[2] = table
            /\ by # "" => \E i \in 1..(Len(calls[1].q) - 1) :
                              calls[1].q[i] = " ORDER BY " /\ calls[1].q[i + 1] = by
            /\ by = "" => \A i \in DOMAIN calls[1].q : calls[1].q[i] # " ORDER BY "
            /\ ret.err = reply.err

C9_Witness ==
    /\ op = "List"
    /\ input.opts.Table = ""
    /\ input.opts.OrderByColumn = ""
    /\ rec.sorted
    /\ Len(calls) = 1
    /\ SubSeq(calls[1].q, 1, 4) = <<"SELECT * FROM ", rec.table, " ORDER BY ", rec.sortBy>>

\* C10: a statement issued by PartialUpdate is one Exec of UPDATE {table}
\* SET ... WHERE {pk} = ?, the SET list having one `{col} = ?` term for
\* exactly the keys of both schema and attrs, the i-th argument the attrs
\* value of the i-th SET column, the id last, as many placeholders as
\* arguments; the reported affected-row count is returned unchanged, and an
\* Exec error is returned with count 0.  (The text ends with the statement
\* terminator `;`.)
C10_UpdateStatement ==
    (op = "PartialUpdate" /\ calls # <<>>) =>
        /\ Len(calls) = 1
        /\ calls[1].method = "Exec"
        /\ LET q == calls[1].q
               a == calls[1].args
               n == Len(a) - 1
           IN  /\ n >= 1
               /\ Len(q) = 3 * n + 5
               /\ SubSeq(q, 1, 3) = <<"UPDATE ", rec.table, " SET ">>
               /\ SubSeq(q, Len(q) - 2, Len(q)) = <<" WHERE ", rec.pk, " = ?;">>
               /\ TermList(SubSeq(q, 4, Len(q) - 3), ", ", n,
                           DOMAIN input.schema \cap DOMAIN input.attrs, input.attrs, a)
               /\ a[n + 1] = IdVal(input.id)
               /\ Placeholders(q) = Len(a)
        /\ ret = Reported(reply)

C10_Witness ==
    /\ op = "PartialUpdate"
    /\ Len(calls) = 1
    /\ Len(calls[1].args) = 2
    /\ Cardinality(DOMAIN input.attrs) = 2
    /\ reply.err = nil
    /\ ~reply.res.isNil
    /\ ret.n = 2
====
